---- MODULE Spec2Model ----
(***************************************************************************)
(* RM690B0 AMOLED panel driver (esp_lcd_panel_rm690b0.cpp).                *)
(*                                                                         *)
(* The driver is single threaded and synchronous.  Every handler runs from *)
(* its entry to its return; the only points where the outside world        *)
(* answers are the calls into the transport (io->tx_param, io->tx_color).  *)
(* The model has one action per handler entry and one action per transport *)
(* call site: a call-site action covers the code from the previous         *)
(* transport call's return up to and including this call's return, and the *)
(* transport's answer is the action's nondeterministic input.  While a     *)
(* handler is running (pc # "idle") only its own continuation is enabled.  *)
(*                                                                         *)
(* tx and gpio are the transcripts of the transport and GPIO calls made by *)
(* the handler named in op (the running one, or the last one to return).   *)
(***************************************************************************)
EXTENDS Integers, Sequences, FiniteSets, TLC

VARIABLES
    panel,     \* the RM690B0Panel record
    pc,        \* position of the running handler, "idle" between calls
    pending,   \* send_commands: the commands of the vector not yet sent
    frame,     \* draw_bitmap: its (gap-adjusted) coordinate locals
    tx,        \* transport calls of the handler in op, with their results
    gpio,      \* GPIO calls of the handler in op
    op,        \* the handler called last: [name, args]
    ret,       \* its return value ("none" while it runs)
    last_gap   \* the last set_gap call: its int arguments as passed, and
               \* whether the handler called just before it was a set_gap
               \* with the same arguments
VARIABLES
    madctl     \* the set-addressing-mode commands so far: "failed" when the
               \* one of a mutator failed and none was accepted since,
               \* "recovered" when the last accepted one was the first
               \* after such a failure, "clean" otherwise

vars == <<panel, pc, pending, frame, tx, gpio, op, ret, last_gap, madctl>>

----------------------------------------------------------------------------
(* Constants of the driver and of the esp_lcd headers it uses.             *)

LOW == 0
HIGH == 1

GPIO_NUM_NC == -1

ESP_OK == "ESP_OK"
ESP_FAIL == "ESP_FAIL"
ESP_ERR_TIMEOUT == "ESP_ERR_TIMEOUT"
ESP_ERR_INVALID_ARG == "ESP_ERR_INVALID_ARG"

LCD_RGB_ELEMENT_ORDER_RGB == "RGB"
LCD_RGB_ELEMENT_ORDER_BGR == "BGR"

command_prefix == 33554432      \* 0x02000000
pixel_prefix == 838860800       \* 0x32000000

color_3_bits_per_pixel == 51        \* 0b00110011
grayscale_8_bits_per_pixel == 17    \* 0b00010001
color_8_bits_per_pixel == 34        \* 0b00100010
color_16_bits_per_pixel == 85       \* 0b01010101
color_18_bits_per_pixel == 102      \* 0b01100110
color_24_bits_per_pixel == 119      \* 0b01110111

lcd_cmd_unknown_0x2400 == 36                   \* 0x24
lcd_cmd_unknown_0x5B00 == 91                   \* 0x5B
lcd_cmd_write_display_brightness == 81         \* 0x51
lcd_cmd_set_disp_mode == 194                   \* 0xC2
lcd_cmd_cmd_mode_switch == 254                 \* 0xFE
lcd_cmd_interface_pixel_format_option == 128   \* 0x80

rotation_normal == 0
rotation_mirror_y == 16     \* 0x10
rotation_swap_xy == 32      \* 0x20
rotation_minus90 == 48      \* 0x30
rotation_plus90 == 96       \* 0x60

rbg_element_order_rgb == 0
rbg_element_order_bgr == 8  \* 0b00001000

swap_rgb565_bytes == 16     \* 0b00010000
bits_per_byte == 8

\* esp_lcd_panel_commands.h
LCD_CMD_SLPIN == 16      \* 0x10
LCD_CMD_SLPOUT == 17     \* 0x11
LCD_CMD_INVOFF == 32     \* 0x20
LCD_CMD_INVON == 33      \* 0x21
LCD_CMD_DISPOFF == 40    \* 0x28
LCD_CMD_DISPON == 41     \* 0x29
LCD_CMD_CASET == 42      \* 0x2A
LCD_CMD_RASET == 43      \* 0x2B
LCD_CMD_RAMWR == 44      \* 0x2C
LCD_CMD_TEON == 53       \* 0x35
LCD_CMD_MADCTL == 54     \* 0x36
LCD_CMD_COLMOD == 58     \* 0x3A

\* uint8_t: the width the driver narrows ints to.
Uint8Mod == 256

----------------------------------------------------------------------------
(* Integer helpers.                                                        *)

ToUint8(v) == v % Uint8Mod

RECURSIVE BitOr(_, _)
BitOr(a, b) ==
    IF a = 0 THEN b
    ELSE IF b = 0 THEN a
    ELSE (IF a % 2 = 1 \/ b % 2 = 1 THEN 1 ELSE 0) + 2 * BitOr(a \div 2, b \div 2)

Last(s) == s[Len(s)]

----------------------------------------------------------------------------
(* Command descriptors.                                                    *)

\* LCDCmd::LCDCmd: the 32-bit command word and the settle delay (ms).
LCDCmd(command_addr, param) ==
    [lcd_cmd |-> command_prefix + command_addr * 256,
     param   |-> param,
     delay   |-> CASE command_addr = LCD_CMD_SLPIN -> 5
                   [] command_addr = LCD_CMD_SLPOUT -> 120
                   [] command_addr \in {LCD_CMD_DISPON, lcd_cmd_set_disp_mode} -> 10
                   [] OTHER -> 0]

\* Variant: display-on is sent before sleep-out.
default_init_cmds_display_on_early ==
    << LCDCmd(lcd_cmd_cmd_mode_switch, <<32>>),
       LCDCmd(lcd_cmd_unknown_0x2400, <<128>>),
       LCDCmd(lcd_cmd_unknown_0x5B00, <<46>>),
       LCDCmd(lcd_cmd_cmd_mode_switch, <<0>>),
       LCDCmd(lcd_cmd_set_disp_mode, <<0>>),
       LCDCmd(LCD_CMD_TEON, <<0>>),
       LCDCmd(LCD_CMD_DISPON, <<>>),
       LCDCmd(LCD_CMD_SLPOUT, <<>>) >>

default_init_cmds ==
    << LCDCmd(lcd_cmd_cmd_mode_switch, <<32>>),
       LCDCmd(lcd_cmd_unknown_0x2400, <<128>>),
       LCDCmd(lcd_cmd_unknown_0x5B00, <<46>>),
       LCDCmd(lcd_cmd_cmd_mode_switch, <<0>>),
       LCDCmd(lcd_cmd_set_disp_mode, <<0>>),
       LCDCmd(LCD_CMD_TEON, <<0>>),
       LCDCmd(LCD_CMD_SLPOUT, <<>>),
       LCDCmd(LCD_CMD_DISPON, <<>>) >>


----------------------------------------------------------------------------
(* Registration: esp_lcd_new_panel_rm690b0.                                *)

NoVendorConfig == [present |-> FALSE, en_gpio_num |-> GPIO_NUM_NC, grayscale |-> FALSE]

\* The record a successful registration returns for panel_dev_config cfg.
\* bits_per_pixel is a uint32_t in the config and a uint8_t in the record.
esp_lcd_new_panel_rm690b0(cfg) ==
    [brightness     |-> 0,
     reset_gpio_num |-> IF cfg.reset_gpio_num >= 0 THEN cfg.reset_gpio_num ELSE GPIO_NUM_NC,
     en_gpio_num    |-> IF cfg.vendor_config.present
                        THEN cfg.vendor_config.en_gpio_num ELSE GPIO_NUM_NC,
     x_gap          |-> 0,
     y_gap          |-> 0,
     bits_per_pixel |-> ToUint8(cfg.bits_per_pixel),
     swap_xy        |-> FALSE,
     mirror_x       |-> FALSE,
     mirror_y       |-> FALSE,
     rgb_ele_order  |-> cfg.rgb_ele_order,
     grayscale      |-> IF cfg.vendor_config.present
                        THEN cfg.vendor_config.grayscale ELSE FALSE]

----------------------------------------------------------------------------
(* Pure functions of the record.                                           *)

\* Variant: the grayscale check is missing.
get_pixel_format_no_grayscale_check(p) ==
    CASE p.bits_per_pixel = 3 -> color_3_bits_per_pixel
      [] p.bits_per_pixel = 8 ->
             IF p.grayscale THEN grayscale_8_bits_per_pixel ELSE color_8_bits_per_pixel
      [] p.bits_per_pixel = 16 -> color_16_bits_per_pixel
      [] p.bits_per_pixel = 18 -> color_18_bits_per_pixel
      [] p.bits_per_pixel = 24 -> color_24_bits_per_pixel
      [] OTHER -> 0

get_pixel_format(p) ==
    IF p.grayscale /\ p.bits_per_pixel # 8 THEN 0
    ELSE CASE p.bits_per_pixel = 3 -> color_3_bits_per_pixel
           [] p.bits_per_pixel = 8 ->
                  IF p.grayscale THEN grayscale_8_bits_per_pixel ELSE color_8_bits_per_pixel
           [] p.bits_per_pixel = 16 -> color_16_bits_per_pixel
           [] p.bits_per_pixel = 18 -> color_18_bits_per_pixel
           [] p.bits_per_pixel = 24 -> color_24_bits_per_pixel
           [] OTHER -> 0

\* Variant: with swapped axes and both mirrors, mirror-y decides.
get_scan_direction_mirror_y_first(p) ==
    IF p.swap_xy
    THEN IF p.mirror_y THEN rotation_plus90
         ELSE IF p.mirror_x THEN rotation_minus90
         ELSE rotation_swap_xy
    ELSE IF p.mirror_y THEN rotation_mirror_y
    ELSE rotation_normal

get_scan_direction(p) ==
    IF p.swap_xy
    THEN IF p.mirror_x THEN rotation_minus90
         ELSE IF p.mirror_y THEN rotation_plus90
         ELSE rotation_swap_xy
    ELSE IF p.mirror_y THEN rotation_mirror_y
    ELSE rotation_normal

\* update_screen_orientation: the command it hands to send_command.
update_screen_orientation_cmd(p) ==
    LET element_order == IF p.rgb_ele_order = LCD_RGB_ELEMENT_ORDER_RGB
                         THEN rbg_element_order_rgb ELSE rbg_element_order_bgr
    IN LCDCmd(LCD_CMD_MADCTL, <<BitOr(get_scan_direction(p), element_order)>>)

\* static_cast<uint8_t>(v >> 8 & 0xFF) and static_cast<uint8_t>(v & 0xFF)
HighByte(v) == ToUint8((v \div 256) % 256)
LowByte(v) == ToUint8(v % 256)

\* draw_bitmap: its locals after the gap adjustment (lines 319-323).
draw_bitmap_frame(p, x_start, y_start, x_end, y_end) ==
    [x_start |-> x_start + p.x_gap,
     x_end   |-> x_end + p.x_gap - 1,
     y_start |-> y_start + p.y_gap,
     y_end   |-> y_end + p.y_gap - 1]

\* draw_bitmap: the window command vector built from the adjusted locals.
draw_bitmap_cmds(f) ==
    << LCDCmd(LCD_CMD_CASET, <<HighByte(f.x_start), LowByte(f.x_start),
                               HighByte(f.x_end), LowByte(f.x_end)>>),
       LCDCmd(LCD_CMD_RASET, <<HighByte(f.y_start), LowByte(f.y_start),
                               HighByte(f.y_end), LowByte(f.y_end)>>),
       LCDCmd(LCD_CMD_RAMWR, <<>>) >>

\* Variant: the depth is turned into whole bytes per pixel first.
draw_bitmap_color_size_whole_bytes(p, f) ==
    LET area_size == (f.x_end - f.x_start + 1) * (f.y_end - f.y_start + 1)
    IN area_size * (p.bits_per_pixel \div bits_per_byte)

\* draw_bitmap: the byte count passed to tx_color.  The area is an int
\* product converted to size_t; the multiplication by bits_per_pixel and the
\* division are size_t arithmetic.  Every rectangle of RectArgs keeps both
\* products below 2^31, where int and size_t arithmetic are exact.
draw_bitmap_color_size(p, f) ==
    LET area_size == (f.x_end - f.x_start + 1) * (f.y_end - f.y_start + 1)
    IN (area_size * p.bits_per_pixel) \div bits_per_byte

esp_lcd_panel_rm690b0_get_brightness(p) == p.brightness

----------------------------------------------------------------------------
(* Transport and GPIO transcripts.                                         *)

\* What the transport may answer to a call.
Results == {ESP_OK, ESP_FAIL, ESP_ERR_TIMEOUT}

\* io->tx_param(io, cmd.lcd_cmd, cmd.param.data(), cmd.param.size()),
\* followed by the command's settle delay.
TxParam(cmd, r) ==
    [fn |-> "tx_param", lcd_cmd |-> cmd.lcd_cmd, param |-> cmd.param,
     size |-> Len(cmd.param), delay |-> cmd.delay, ret |-> r]

\* io->tx_color(io, lcd_cmd, color_data, size)
TxColor(lcd_cmd, size, r) ==
    [fn |-> "tx_color", lcd_cmd |-> lcd_cmd, param |-> <<>>,
     size |-> size, delay |-> 0, ret |-> r]

\* What the GPIO layer may answer to gpio_reset_pin.
GpioResults == {ESP_OK, ESP_FAIL}

\* gpio_set_level(pin, level); the driver never reads its result.
GpioSetLevel(pin, level) == [fn |-> "gpio_set_level", pin |-> pin, level |-> level]

\* gpio_reset_pin(pin), answered r.
GpioResetPin(pin, r) == [fn |-> "gpio_reset_pin", pin |-> pin, ret |-> r]

NoFrame == [x_start |-> 0, x_end |-> 0, y_start |-> 0, y_end |-> 0]

----------------------------------------------------------------------------
(* Inputs.                                                                 *)

\* bits_per_pixel values a caller may configure: the five supported depths,
\* an unsupported one, and one that only fits the record after narrowing.
BitsPerPixelArgs == {3, 8, 16, 18, 24, 12, 264}

ResetPinArgs == {-1, 4}
EnablePinArgs == {GPIO_NUM_NC, 5}

Vendor(en_gpio_num, grayscale) ==
    [present |-> TRUE, en_gpio_num |-> en_gpio_num, grayscale |-> grayscale]

VendorConfigs ==
    {NoVendorConfig} \cup {Vendor(e, g) : e \in EnablePinArgs, g \in BOOLEAN}

Config(bits_per_pixel, rgb_ele_order, reset_gpio_num, vendor_config) ==
    [bits_per_pixel |-> bits_per_pixel, rgb_ele_order |-> rgb_ele_order,
     reset_gpio_num |-> reset_gpio_num, vendor_config |-> vendor_config]

\* Every combination of the configuration inputs.
PanelConfigs ==
    [bits_per_pixel : BitsPerPixelArgs,
     rgb_ele_order  : {LCD_RGB_ELEMENT_ORDER_RGB, LCD_RGB_ELEMENT_ORDER_BGR},
     reset_gpio_num : ResetPinArgs,
     vendor_config  : VendorConfigs]

\* A few configurations that between them take every value of every field:
\* used where all handlers interleave.
CoreConfigs ==
    { Config(16, LCD_RGB_ELEMENT_ORDER_RGB, 4, Vendor(5, FALSE)),
      Config(8, LCD_RGB_ELEMENT_ORDER_BGR, -1, Vendor(GPIO_NUM_NC, TRUE)),
      Config(24, LCD_RGB_ELEMENT_ORDER_RGB, -1, NoVendorConfig),
      Config(3, LCD_RGB_ELEMENT_ORDER_BGR, 4, Vendor(5, TRUE)),
      Config(18, LCD_RGB_ELEMENT_ORDER_BGR, 4, Vendor(GPIO_NUM_NC, FALSE)),
      Config(12, LCD_RGB_ELEMENT_ORDER_RGB, -1, Vendor(5, FALSE)) }

\* Every bits_per_pixel a uint8_t holds (and one wider), with and without
\* grayscale: the domain of get_pixel_format.
FormatConfigs ==
    { Config(b, LCD_RGB_ELEMENT_ORDER_RGB, -1, v) :
        b \in (0 .. (Uint8Mod - 1)) \cup {264},
        v \in {NoVendorConfig, Vendor(GPIO_NUM_NC, TRUE)} }

BrightnessArgs == {0, 200}

\* set_gap takes ints; 300 does not fit the uint8_t fields.
GapArgs == {<<2, 3>>, <<255, 0>>, <<300, 3>>}

\* draw_bitmap rectangles, end-exclusive: <<x_start, y_start, x_end, y_end>>.
RectArgs ==
    {<<0, 0, 100, 50>>, <<10, 20, 11, 21>>, <<254, 255, 450, 600>>}

----------------------------------------------------------------------------
(* Handlers.                                                               *)

\* The state after a successful registration with a configuration of configs.
Registered(configs) ==
    /\ \E cfg \in configs : panel = esp_lcd_new_panel_rm690b0(cfg)
    /\ pc = "idle"
    /\ pending = <<>>
    /\ frame = NoFrame
    /\ tx = <<>>
    /\ gpio = <<>>
    /\ op = [name |-> "esp_lcd_new_panel_rm690b0", args |-> <<>>]
    /\ ret = ESP_OK
    /\ last_gap = [x_gap |-> 0, y_gap |-> 0, repeated |-> FALSE]
    /\ madctl = "clean"

\* A handler is entered: it becomes the handler the transcripts are about.
Enter(name, args) ==
    /\ pc = "idle"
    /\ op' = [name |-> name, args |-> args]
    /\ tx' = <<>>

\* The running handler returns r.
Return(r) ==
    /\ pc' = "idle"
    /\ ret' = r
    /\ pending' = <<>>
    /\ frame' = NoFrame

\* Variant: a failed tx_param is tried once more.
send_command_retry_once(cmd, r) ==
    tx' = IF r # ESP_OK
          THEN tx \o <<TxParam(cmd, r), TxParam(cmd, r)>>
          ELSE Append(tx, TxParam(cmd, r))

\* send_command: one tx_param call, answered r by the transport.
send_command(cmd, r) == tx' = Append(tx, TxParam(cmd, r))

\* What the transport's answer r to a set-addressing-mode command makes of
\* madctl; by_mutator tells a command of swap_xy or mirror from init's.
madctl_sent(by_mutator, r) ==
    madctl' = IF r = ESP_OK
              THEN IF madctl = "failed" THEN "recovered" ELSE "clean"
              ELSE IF by_mutator THEN "failed" ELSE madctl

\* Variant: the loop drops each command's result and goes on.
send_commands_never_returns(r) == FALSE

\* send_commands: ESP_RETURN_ON_ERROR leaves the loop on the first failure.
send_commands_returns(r) == r # ESP_OK

\* send_commands: the next command of the vector is sent; on a failure the
\* loop and its caller (through its own ESP_RETURN_ON_ERROR) return it, after
\* the last command control continues in the caller at `after`.
send_commands(r, after) ==
    /\ pending # <<>>
    /\ send_command(Head(pending), r)
    /\ IF send_commands_returns(r)
       THEN Return(r)
       ELSE /\ pending' = Tail(pending)
            /\ pc' = IF Tail(pending) = <<>> THEN after ELSE pc
            /\ UNCHANGED <<ret, frame>>

(* init *)

\* Variant: the enable pin is written whatever en_gpio_num holds.
init_enable_pin_unconditional ==
    /\ Enter("init", <<>>)
    /\ gpio' = <<GpioSetLevel(panel.en_gpio_num, HIGH)>>
    /\ pending' = default_init_cmds
    /\ pc' = "init.send_commands"
    /\ ret' = "none"
    /\ UNCHANGED <<panel, frame, last_gap, madctl>>

init ==
    /\ Enter("init", <<>>)
    /\ gpio' = IF panel.en_gpio_num # GPIO_NUM_NC
               THEN <<GpioSetLevel(panel.en_gpio_num, HIGH)>>
               ELSE <<>>
    /\ pending' = default_init_cmds
    /\ pc' = "init.send_commands"
    /\ ret' = "none"
    /\ UNCHANGED <<panel, frame, last_gap, madctl>>

init_send_commands ==
    /\ pc = "init.send_commands"
    /\ \E r \in Results : send_commands(r, "init.update_screen_orientation")
    /\ UNCHANGED <<panel, gpio, op, last_gap, madctl>>

\* Variant: a failed update_screen_orientation makes init return.
init_update_screen_orientation_checked ==
    /\ pc = "init.update_screen_orientation"
    /\ \E r \in Results :
          /\ send_command(update_screen_orientation_cmd(panel), r)
          /\ madctl_sent(FALSE, r)
          /\ IF r # ESP_OK
             THEN Return(r)
             ELSE IF get_pixel_format(panel) = 0
                  THEN Return(ESP_ERR_INVALID_ARG)
                  ELSE /\ pc' = "init.colmod"
                       /\ UNCHANGED <<ret, pending, frame>>
    /\ UNCHANGED <<panel, gpio, op, last_gap>>

\* The result of update_screen_orientation is dropped; get_pixel_format
\* follows before the next transport call.
init_update_screen_orientation ==
    /\ pc = "init.update_screen_orientation"
    /\ \E r \in Results :
          /\ send_command(update_screen_orientation_cmd(panel), r)
          /\ madctl_sent(FALSE, r)
    /\ IF get_pixel_format(panel) = 0
       THEN Return(ESP_ERR_INVALID_ARG)
       ELSE /\ pc' = "init.colmod"
            /\ UNCHANGED <<ret, pending, frame>>
    /\ UNCHANGED <<panel, gpio, op, last_gap>>

init_colmod ==
    /\ pc = "init.colmod"
    /\ \E r \in Results :
          /\ send_command(LCDCmd(LCD_CMD_COLMOD, <<get_pixel_format(panel)>>), r)
          /\ IF r # ESP_OK
             THEN Return(r)
             ELSE /\ pc' = IF panel.bits_per_pixel = 16
                           THEN "init.pixel_format_option"
                           ELSE "init.set_brightness"
                  /\ UNCHANGED <<ret, pending, frame>>
    /\ UNCHANGED <<panel, gpio, op, last_gap, madctl>>

\* Variant: a failed byte-swap option command makes init return.
init_pixel_format_option_checked ==
    /\ pc = "init.pixel_format_option"
    /\ \E r \in Results :
          /\ send_command(LCDCmd(lcd_cmd_interface_pixel_format_option,
                                 <<swap_rgb565_bytes>>), r)
          /\ IF r # ESP_OK
             THEN Return(r)
             ELSE /\ pc' = "init.set_brightness"
                  /\ UNCHANGED <<ret, pending, frame>>
    /\ UNCHANGED <<panel, gpio, op, last_gap, madctl>>

\* The result of the byte-swap option command is dropped.
init_pixel_format_option ==
    /\ pc = "init.pixel_format_option"
    /\ \E r \in Results :
          send_command(LCDCmd(lcd_cmd_interface_pixel_format_option,
                              <<swap_rgb565_bytes>>), r)
    /\ pc' = "init.set_brightness"
    /\ UNCHANGED <<panel, pending, frame, gpio, op, ret, last_gap, madctl>>

\* Variant: init returns ESP_OK whatever the brightness command answered.
init_set_brightness_result_dropped ==
    /\ pc = "init.set_brightness"
    /\ panel' = [panel EXCEPT !.brightness = 255]
    /\ \E r \in Results :
          /\ send_command(LCDCmd(lcd_cmd_write_display_brightness, <<255>>), r)
          /\ Return(ESP_OK)
    /\ UNCHANGED <<gpio, op, last_gap, madctl>>

\* esp_lcd_panel_rm690b0_set_brightness(panel, 0xFF) and init's return.
init_set_brightness ==
    /\ pc = "init.set_brightness"
    /\ panel' = [panel EXCEPT !.brightness = 255]
    /\ \E r \in Results :
          /\ send_command(LCDCmd(lcd_cmd_write_display_brightness, <<255>>), r)
          /\ Return(r)
    /\ UNCHANGED <<gpio, op, last_gap, madctl>>

(* draw_bitmap *)

draw_bitmap(x_start, y_start, x_end, y_end) ==
    /\ Enter("draw_bitmap", <<x_start, y_start, x_end, y_end>>)
    /\ frame' = draw_bitmap_frame(panel, x_start, y_start, x_end, y_end)
    /\ pending' = draw_bitmap_cmds(frame')
    /\ pc' = "draw_bitmap.send_commands"
    /\ ret' = "none"
    /\ gpio' = <<>>
    /\ UNCHANGED <<panel, last_gap, madctl>>

draw_bitmap_send_commands ==
    /\ pc = "draw_bitmap.send_commands"
    /\ \E r \in Results : send_commands(r, "draw_bitmap.tx_color")
    /\ UNCHANGED <<panel, gpio, op, last_gap, madctl>>

draw_bitmap_tx_color ==
    /\ pc = "draw_bitmap.tx_color"
    /\ \E r \in Results :
          /\ tx' = Append(tx, TxColor(pixel_prefix + LCD_CMD_RAMWR * 256,
                                      draw_bitmap_color_size(panel, frame), r))
          /\ Return(r)
    /\ UNCHANGED <<panel, gpio, op, last_gap, madctl>>

(* swap_xy, mirror *)

swap_xy(swap_axes) ==
    /\ Enter("swap_xy", <<swap_axes>>)
    /\ panel' = [panel EXCEPT !.swap_xy = swap_axes]
    /\ pc' = "swap_xy.update_screen_orientation"
    /\ ret' = "none"
    /\ gpio' = <<>>
    /\ UNCHANGED <<pending, frame, last_gap, madctl>>

\* Variant: the result of update_screen_orientation is dropped, as in init.
swap_xy_update_screen_orientation_result_dropped ==
    /\ pc = "swap_xy.update_screen_orientation"
    /\ \E r \in Results :
          /\ send_command(update_screen_orientation_cmd(panel), r)
          /\ madctl_sent(TRUE, r)
          /\ Return(ESP_OK)
    /\ UNCHANGED <<panel, gpio, op, last_gap>>

\* Variant: a failed send takes the swap flag back.
swap_xy_update_screen_orientation_rolled_back ==
    /\ pc = "swap_xy.update_screen_orientation"
    /\ \E r \in Results :
          /\ send_command(update_screen_orientation_cmd(panel), r)
          /\ madctl_sent(TRUE, r)
          /\ panel' = IF r # ESP_OK
                      THEN [panel EXCEPT !.swap_xy = ~panel.swap_xy]
                      ELSE panel
          /\ Return(r)
    /\ UNCHANGED <<gpio, op, last_gap>>

swap_xy_update_screen_orientation ==
    /\ pc = "swap_xy.update_screen_orientation"
    /\ \E r \in Results :
          /\ send_command(update_screen_orientation_cmd(panel), r)
          /\ madctl_sent(TRUE, r)
          /\ Return(r)
    /\ UNCHANGED <<panel, gpio, op, last_gap>>

mirror(mirror_x, mirror_y) ==
    /\ Enter("mirror", <<mirror_x, mirror_y>>)
    /\ panel' = [panel EXCEPT !.mirror_x = mirror_x, !.mirror_y = mirror_y]
    /\ pc' = "mirror.update_screen_orientation"
    /\ ret' = "none"
    /\ gpio' = <<>>
    /\ UNCHANGED <<pending, frame, last_gap, madctl>>

mirror_update_screen_orientation ==
    /\ pc = "mirror.update_screen_orientation"
    /\ \E r \in Results :
          /\ send_command(update_screen_orientation_cmd(panel), r)
          /\ madctl_sent(TRUE, r)
          /\ Return(r)
    /\ UNCHANGED <<panel, gpio, op, last_gap>>

(* invert_color, disp_on_off, sleep *)

invert_color(invert_color_data) ==
    /\ Enter("invert_color", <<invert_color_data>>)
    /\ pc' = "invert_color.send_command"
    /\ ret' = "none"
    /\ gpio' = <<>>
    /\ UNCHANGED <<panel, pending, frame, last_gap, madctl>>

invert_color_send_command ==
    /\ pc = "invert_color.send_command"
    /\ \E r \in Results :
          /\ send_command(LCDCmd(IF op.args[1] THEN LCD_CMD_INVON ELSE LCD_CMD_INVOFF,
                                 <<>>), r)
          /\ Return(r)
    /\ UNCHANGED <<panel, gpio, op, last_gap, madctl>>

disp_on_off(on_off) ==
    /\ Enter("disp_on_off", <<on_off>>)
    /\ pc' = "disp_on_off.send_command"
    /\ ret' = "none"
    /\ gpio' = <<>>
    /\ UNCHANGED <<panel, pending, frame, last_gap, madctl>>

disp_on_off_send_command ==
    /\ pc = "disp_on_off.send_command"
    /\ \E r \in Results :
          /\ send_command(LCDCmd(IF op.args[1] THEN LCD_CMD_DISPON ELSE LCD_CMD_DISPOFF,
                                 <<>>), r)
          /\ Return(r)
    /\ UNCHANGED <<panel, gpio, op, last_gap, madctl>>

sleep(sleep_arg) ==
    /\ Enter("sleep", <<sleep_arg>>)
    /\ pc' = "sleep.send_command"
    /\ ret' = "none"
    /\ gpio' = <<>>
    /\ UNCHANGED <<panel, pending, frame, last_gap, madctl>>

sleep_send_command ==
    /\ pc = "sleep.send_command"
    /\ \E r \in Results :
          /\ send_command(LCDCmd(IF op.args[1] THEN LCD_CMD_SLPIN ELSE LCD_CMD_SLPOUT,
                                 <<>>), r)
          /\ Return(r)
    /\ UNCHANGED <<panel, gpio, op, last_gap, madctl>>

(* reset, del *)

\* Variant: reset does nothing when the reset pin is not connected.
reset_skips_not_connected ==
    /\ Enter("reset", <<>>)
    /\ gpio' = IF panel.reset_gpio_num = GPIO_NUM_NC
               THEN <<>>
               ELSE << GpioSetLevel(panel.reset_gpio_num, HIGH),
                       GpioSetLevel(panel.reset_gpio_num, LOW),
                       GpioSetLevel(panel.reset_gpio_num, HIGH) >>
    /\ Return(ESP_OK)
    /\ UNCHANGED <<panel, last_gap, madctl>>

\* The three writes go to reset_gpio_num whatever it holds.
reset ==
    /\ Enter("reset", <<>>)
    /\ gpio' = << GpioSetLevel(panel.reset_gpio_num, HIGH),
                  GpioSetLevel(panel.reset_gpio_num, LOW),
                  GpioSetLevel(panel.reset_gpio_num, HIGH) >>
    /\ Return(ESP_OK)
    /\ UNCHANGED <<panel, last_gap, madctl>>

\* reset(pin_num, pin_name): the GPIO calls it makes, answered r.
reset_pin(pin_num, r) ==
    IF pin_num = GPIO_NUM_NC THEN <<>> ELSE <<GpioResetPin(pin_num, r)>>

\* Variant: a failed release of the reset pin ends the teardown.
reset_all_pins_stops_on_failure(p, r_reset, r_en) ==
    IF p.reset_gpio_num # GPIO_NUM_NC /\ r_reset # ESP_OK
    THEN reset_pin(p.reset_gpio_num, r_reset)
    ELSE reset_pin(p.reset_gpio_num, r_reset) \o reset_pin(p.en_gpio_num, r_en)

\* reset_all_pins: both results are dropped.
reset_all_pins(p, r_reset, r_en) ==
    reset_pin(p.reset_gpio_num, r_reset) \o reset_pin(p.en_gpio_num, r_en)

\* del: the pins are released, then the record is freed as `owner` goes out
\* of scope; no handler may be called on the handle afterwards.
del ==
    /\ Enter("del", <<>>)
    /\ \E r_reset, r_en \in GpioResults : gpio' = reset_all_pins(panel, r_reset, r_en)
    /\ pc' = "deleted"
    /\ ret' = ESP_OK
    /\ UNCHANGED <<panel, pending, frame, last_gap, madctl>>

(* set_gap *)

\* Variant: the gaps are added to the stored ones.
set_gap_fields_accumulate(p, x_gap, y_gap) ==
    [p EXCEPT !.x_gap = ToUint8(p.x_gap + x_gap), !.y_gap = ToUint8(p.y_gap + y_gap)]

\* Variant: the y gap lands in the neighbouring uint8_t field of the record.
set_gap_fields_wrong_field(p, x_gap, y_gap) ==
    [p EXCEPT !.x_gap = ToUint8(x_gap), !.brightness = ToUint8(y_gap)]

\* The int arguments are stored in the uint8_t fields.
set_gap_fields(p, x_gap, y_gap) ==
    [p EXCEPT !.x_gap = ToUint8(x_gap), !.y_gap = ToUint8(y_gap)]

set_gap(x_gap, y_gap) ==
    /\ Enter("set_gap", <<x_gap, y_gap>>)
    /\ panel' = set_gap_fields(panel, x_gap, y_gap)
    /\ last_gap' = [x_gap |-> x_gap, y_gap |-> y_gap,
                    repeated |-> op.name = "set_gap" /\ op.args = <<x_gap, y_gap>>]
    /\ gpio' = <<>>
    /\ Return(ESP_OK)
    /\ UNCHANGED madctl

(* brightness *)

get_brightness ==
    /\ Enter("get_brightness", <<>>)
    /\ gpio' = <<>>
    /\ Return(esp_lcd_panel_rm690b0_get_brightness(panel))
    /\ UNCHANGED <<panel, last_gap, madctl>>

\* Variant: the cache is left as it was.
set_brightness_cache_skipped(p, brightness) == p

\* The cache is written before the command is sent.
set_brightness_cache(p, brightness) == [p EXCEPT !.brightness = brightness]

set_brightness(brightness) ==
    /\ Enter("set_brightness", <<brightness>>)
    /\ panel' = set_brightness_cache(panel, brightness)
    /\ pc' = "set_brightness.send_command"
    /\ ret' = "none"
    /\ gpio' = <<>>
    /\ UNCHANGED <<pending, frame, last_gap, madctl>>

set_brightness_send_command ==
    /\ pc = "set_brightness.send_command"
    /\ \E r \in Results :
          /\ send_command(LCDCmd(lcd_cmd_write_display_brightness,
                                 <<panel.brightness>>), r)
          /\ Return(r)
    /\ UNCHANGED <<panel, gpio, op, last_gap, madctl>>

----------------------------------------------------------------------------
(* Specification.                                                          *)

InitSteps ==
    \/ init
    \/ init_send_commands
    \/ init_update_screen_orientation
    \/ init_colmod
    \/ init_pixel_format_option
    \/ init_set_brightness

DrawSteps ==
    \/ \E a \in RectArgs : draw_bitmap(a[1], a[2], a[3], a[4])
    \/ draw_bitmap_send_commands
    \/ draw_bitmap_tx_color

OrientationSteps ==
    \/ \E b \in BOOLEAN : swap_xy(b)
    \/ swap_xy_update_screen_orientation
    \/ \E mx, my \in BOOLEAN : mirror(mx, my)
    \/ mirror_update_screen_orientation

GapSteps == \E g \in GapArgs : set_gap(g[1], g[2])

BrightnessSteps ==
    \/ get_brightness
    \/ \E b \in BrightnessArgs : set_brightness(b)
    \/ set_brightness_send_command

CommandSteps ==
    \/ \E b \in BOOLEAN : invert_color(b)
    \/ invert_color_send_command
    \/ \E b \in BOOLEAN : disp_on_off(b)
    \/ disp_on_off_send_command
    \/ \E b \in BOOLEAN : sleep(b)
    \/ sleep_send_command

PinSteps == reset \/ del

\* Every handler, on the core configurations.
Init == Registered(CoreConfigs)
Next ==
    \/ InitSteps
    \/ DrawSteps
    \/ OrientationSteps
    \/ GapSteps
    \/ BrightnessSteps
    \/ CommandSteps
    \/ PinSteps
Spec == Init /\ [][Next]_vars

\* init and the orientation mutators, on every configuration.
InitInit == Registered(PanelConfigs)
NextInit == InitSteps \/ OrientationSteps
SpecInit == InitInit /\ [][NextInit]_vars

\* set_gap and draw_bitmap, on every configuration.
InitDraw == Registered(PanelConfigs)
NextDraw == GapSteps \/ DrawSteps
SpecDraw == InitDraw /\ [][NextDraw]_vars

\* init on every bits_per_pixel / grayscale pair.
InitFormat == Registered(FormatConfigs)
NextFormat == InitSteps
SpecFormat == InitFormat /\ [][NextFormat]_vars

----------------------------------------------------------------------------
(* Properties.                                                             *)

\* The transcript entry e is the parameterized command with address addr.
IsCommand(e, addr) == e.fn = "tx_param" /\ e.lcd_cmd = command_prefix + addr * 256

\* Every transport call of the transcript so far succeeded.
NoFailure == \A k \in 1..Len(tx) : tx[k].ret = ESP_OK

\* C1: fail-fast init.  If the transport fails the k-th command of the init
\* sequence (k in 1..8), that command is the last one init hands to the
\* transport and init has returned that failure.
C1_InitFailFast ==
    op.name = "init" =>
        \A k \in 1..8 :
            (k <= Len(tx) /\ tx[k].ret # ESP_OK) =>
                /\ Len(tx) = k
                /\ pc = "idle"
                /\ ret = tx[k].ret

\* C1 witness: the third init command failed and init returned.
C1_Witness ==
    /\ op.name = "init"
    /\ pc = "idle"
    /\ Len(tx) = 3
    /\ tx[1].ret = ESP_OK
    /\ tx[2].ret = ESP_OK
    /\ tx[3].ret = ESP_ERR_TIMEOUT
    /\ ret = ESP_ERR_TIMEOUT

\* The init sequence of the specification, by address and parameters.
InitSequence ==
    << <<254, <<32>> >>,
       <<36, <<128>> >>,
       <<91, <<46>> >>,
       <<254, <<0>> >>,
       <<194, <<0>> >>,
       <<LCD_CMD_TEON, <<0>> >>,
       <<LCD_CMD_SLPOUT, <<>> >>,
       <<LCD_CMD_DISPON, <<>> >> >>

\* C2: the init sequence is fixed.  While the transport has not failed, the
\* commands init has issued are the first commands of the init sequence, in
\* order, and init does not return before all eight are issued, whatever the
\* record holds and however often init has run.
C2_InitSequenceFixed ==
    (op.name = "init" /\ NoFailure) =>
        /\ \A k \in 1..8 :
              k <= Len(tx) =>
                  /\ IsCommand(tx[k], InitSequence[k][1])
                  /\ tx[k].param = InitSequence[k][2]
        /\ pc = "idle" => Len(tx) >= 8

\* C2 witness: init ran to its end on a record with gaps, swapped and
\* mirrored axes and BGR order.
C2_Witness ==
    /\ op.name = "init"
    /\ pc = "idle"
    /\ ret = ESP_OK
    /\ NoFailure
    /\ panel.x_gap = 44
    /\ panel.swap_xy
    /\ panel.mirror_y
    /\ panel.rgb_ele_order = LCD_RGB_ELEMENT_ORDER_BGR
    /\ panel.bits_per_pixel = 18

\* C3: the brightness cache always updates.  set_brightness returns what the
\* transport answered to its one command, with the argument cached whatever
\* the answer; a get_brightness that follows returns the argument.
C3_BrightnessCached ==
    [][ /\ (pc = "set_brightness.send_command" /\ pc' = "idle") =>
              /\ ret' = Last(tx').ret
              /\ Len(tx') = 1
              /\ IsCommand(tx'[1], 81)
              /\ tx'[1].param = op.args
              /\ panel'.brightness = op.args[1]
        /\ (op.name = "set_brightness" /\ pc = "idle"
                /\ op'.name = "get_brightness") =>
              ret' = op.args[1]
      ]_vars

\* C3 witness: the transport rejected the brightness command and the new
\* value is cached, replacing the 255 of an earlier init.
C3_Witness ==
    /\ op.name = "set_brightness"
    /\ op.args = <<200>>
    /\ pc = "idle"
    /\ ret = ESP_FAIL
    /\ panel.brightness = 200

\* C4: draw aborts on a window failure.  If the transport fails a window
\* command of a draw (column-address-set, row-address-set, begin-memory-write),
\* that command is the last call of the draw, draw has returned its failure,
\* and the bulk pixel path was not called.
C4_DrawAbortsOnWindowFailure ==
    op.name = "draw_bitmap" =>
        \A k \in 1..Len(tx) :
            (tx[k].fn = "tx_param" /\ tx[k].ret # ESP_OK) =>
                /\ Len(tx) = k
                /\ pc = "idle"
                /\ ret = tx[k].ret
                /\ \A j \in 1..Len(tx) : tx[j].fn # "tx_color"

\* C4 witness: the row-address-set command failed.
C4_Witness ==
    /\ op.name = "draw_bitmap"
    /\ pc = "idle"
    /\ Len(tx) = 2
    /\ IsCommand(tx[1], LCD_CMD_CASET)
    /\ IsCommand(tx[2], LCD_CMD_RASET)
    /\ tx[2].ret = ESP_FAIL
    /\ ret = ESP_FAIL

\* The two bytes of a coordinate, as the window commands carry them.
Bytes(v) == << (v \div 256) % 256, v % 256 >>

\* The draw in op issued exactly the window of its rectangle shifted by the
\* gaps (gx, gy), then the begin-memory-write, then one bulk pixel transfer.
WindowIssued(gx, gy) ==
    LET x_start == op.args[1]
        y_start == op.args[2]
        x_end   == op.args[3]
        y_end   == op.args[4]
    IN /\ Len(tx) = 4
       /\ IsCommand(tx[1], LCD_CMD_CASET)
       /\ tx[1].param = Bytes(x_start + gx) \o Bytes(x_end + gx - 1)
       /\ IsCommand(tx[2], LCD_CMD_RASET)
       /\ tx[2].param = Bytes(y_start + gy) \o Bytes(y_end + gy - 1)
       /\ IsCommand(tx[3], LCD_CMD_RAMWR)
       /\ tx[3].param = <<>>
       /\ tx[4].fn = "tx_color"

\* A draw of a rectangle with 0 <= x_start < x_end and 0 <= y_start < y_end
\* has returned, and the transport failed none of its calls.
DrawCompleted ==
    /\ op.name = "draw_bitmap"
    /\ pc = "idle"
    /\ NoFailure
    /\ 0 <= op.args[1] /\ op.args[1] < op.args[3]
    /\ 0 <= op.args[2] /\ op.args[2] < op.args[4]

\* C5: window parameters.  A draw that runs to its end issues the window of
\* its rectangle shifted by the gaps last given to set_gap, for every
\* non-negative gap pair.
C5_WindowParameters ==
    (DrawCompleted /\ last_gap.x_gap >= 0 /\ last_gap.y_gap >= 0) =>
        WindowIssued(last_gap.x_gap, last_gap.y_gap)

\* C5, for the gaps a uint8_t holds: the window is shifted by the gaps given.
C5_WindowParametersUint8 ==
    (DrawCompleted /\ last_gap.x_gap \in 0..255 /\ last_gap.y_gap \in 0..255) =>
        WindowIssued(last_gap.x_gap, last_gap.y_gap)

\* C5, what the code does for any gap: the shift is the gap modulo 256.
C5_WindowParametersNarrowed ==
    DrawCompleted => WindowIssued(last_gap.x_gap % 256, last_gap.y_gap % 256)

\* The example of the specification: rect x 0..100, y 0..50 with gaps (2, 3).
C5_Example ==
    /\ DrawCompleted
    /\ op.args = <<0, 0, 100, 50>>
    /\ last_gap.x_gap = 2
    /\ last_gap.y_gap = 3
    /\ tx[1].param = <<0, 2, 0, 101>>
    /\ tx[2].param = <<0, 3, 0, 52>>

\* C6: payload size.  The byte count of every bulk pixel transfer of a draw
\* is (x_end - x_start) * (y_end - y_start) * bits-per-pixel div 8, for each
\* supported depth and whatever the gaps.
C6_PayloadSize ==
    (op.name = "draw_bitmap" /\ panel.bits_per_pixel \in {3, 8, 16, 18, 24}) =>
        \A k \in 1..Len(tx) :
            tx[k].fn = "tx_color" =>
                tx[k].size = ((op.args[3] - op.args[1]) * (op.args[4] - op.args[2])
                                  * panel.bits_per_pixel) \div 8

\* C6 witness: 100 x 50 pixels at 16 bpp under gaps (2, 3) is 10000 bytes.
C6_Witness ==
    /\ op.name = "draw_bitmap"
    /\ op.args = <<0, 0, 100, 50>>
    /\ panel.bits_per_pixel = 16
    /\ last_gap.x_gap = 2
    /\ last_gap.y_gap = 3
    /\ Len(tx) = 4
    /\ tx[4].fn = "tx_color"
    /\ tx[4].size = 10000

\* The rotation code of the orientation table.
RotationTable(swap, mx, my) ==
    CASE ~swap /\ ~my -> 0
      [] ~swap /\ my -> 16
      [] swap /\ mx -> 48
      [] swap /\ ~mx /\ my -> 96
      [] swap /\ ~mx /\ ~my -> 32

\* C7: orientation table.  Every set-addressing-mode command carries one
\* parameter byte: the table's rotation code for the record's flags, ORed
\* with 0 for RGB and 0x08 for BGR.
C7_OrientationTable ==
    \A k \in 1..Len(tx) :
        IsCommand(tx[k], LCD_CMD_MADCTL) =>
            tx[k].param =
                << BitOr(RotationTable(panel.swap_xy, panel.mirror_x, panel.mirror_y),
                         IF panel.rgb_ele_order = LCD_RGB_ELEMENT_ORDER_BGR
                         THEN 8 ELSE 0) >>

\* C7 witness: swapped axes with both mirrors on a BGR panel send 0x38.
C7_Witness ==
    /\ panel.swap_xy
    /\ panel.mirror_x
    /\ panel.mirror_y
    /\ panel.rgb_ele_order = LCD_RGB_ELEMENT_ORDER_BGR
    /\ Len(tx) >= 1
    /\ IsCommand(Last(tx), LCD_CMD_MADCTL)
    /\ Last(tx).param = <<56>>

\* The format byte of the specification; 0 is the invalid sentinel.
FormatTable(bits_per_pixel, grayscale) ==
    CASE bits_per_pixel = 3 /\ ~grayscale -> 51
      [] bits_per_pixel = 8 /\ ~grayscale -> 34
      [] bits_per_pixel = 8 /\ grayscale -> 17
      [] bits_per_pixel = 16 /\ ~grayscale -> 85
      [] bits_per_pixel = 18 /\ ~grayscale -> 102
      [] bits_per_pixel = 24 /\ ~grayscale -> 119
      [] OTHER -> 0

\* C8: pixel format selection.  For the record's bits-per-pixel and grayscale
\* flag the selector returns the table's byte (0 where the table has none);
\* init sends exactly that byte as the pixel-format parameter, and never 0.
C8_PixelFormat ==
    LET format == FormatTable(panel.bits_per_pixel, panel.grayscale)
    IN /\ get_pixel_format(panel) = format
       /\ \A k \in 1..Len(tx) :
             IsCommand(tx[k], LCD_CMD_COLMOD) =>
                 (tx[k].param = <<format>> /\ format # 0)
       /\ (op.name = "init" /\ pc = "idle" /\ Len(tx) = 9 /\ tx[8].ret = ESP_OK) =>
             (format = 0 /\ ret = ESP_ERR_INVALID_ARG)

\* C8 witness: grayscale at a depth other than 8 made init stop at the
\* sentinel.
C8_Witness ==
    /\ op.name = "init"
    /\ pc = "idle"
    /\ ret = ESP_ERR_INVALID_ARG
    /\ panel.grayscale
    /\ panel.bits_per_pixel = 16
    /\ Len(tx) = 9

\* C9: set_gap is idempotent.  A set_gap that follows a set_gap with the same
\* arguments leaves the record as the first call left it, and a draw after
\* the two calls issues the window and the payload size of a draw after one
\* call: shifted by the arguments as one call stores them.
C9_SetGapIdempotent ==
    [][ /\ (pc = "idle" /\ op.name = "set_gap"
               /\ op'.name = "set_gap" /\ op'.args = op.args) =>
              (last_gap'.repeated /\ panel' = panel)
        /\ (pc' = "idle" /\ op'.name = "draw_bitmap" /\ last_gap'.repeated
               /\ \A k \in 1..Len(tx') : tx'[k].ret = ESP_OK) =>
              /\ Len(tx') = 4
              /\ tx'[1].param = Bytes(op'.args[1] + (last_gap'.x_gap % 256))
                                  \o Bytes(op'.args[3] + (last_gap'.x_gap % 256) - 1)
              /\ tx'[2].param = Bytes(op'.args[2] + (last_gap'.y_gap % 256))
                                  \o Bytes(op'.args[4] + (last_gap'.y_gap % 256) - 1)
              /\ tx'[4].size = ((op'.args[3] - op'.args[1]) * (op'.args[4] - op'.args[2])
                                   * panel'.bits_per_pixel) \div 8
      ]_vars

\* C9 witness: set_gap(2, 3) was called twice in a row and the draw after it
\* carries the window shifted by (2, 3).
C9_Witness ==
    /\ DrawCompleted
    /\ last_gap = [x_gap |-> 2, y_gap |-> 3, repeated |-> TRUE]
    /\ panel.x_gap = 2
    /\ panel.y_gap = 3
    /\ op.args = <<10, 20, 11, 21>>
    /\ tx[1].param = <<0, 12, 0, 12>>
    /\ tx[2].param = <<0, 23, 0, 23>>

\* C10: set_gap is a pure state update.  It returns success at once, calls
\* neither the transport nor the GPIO layer, and changes no field of the
\* record other than x_gap and y_gap.
C10_SetGapPure ==
    [][ (pc = "idle" /\ op'.name = "set_gap") =>
            /\ pc' = "idle"
            /\ ret' = ESP_OK
            /\ tx' = <<>>
            /\ gpio' = <<>>
            /\ panel' = [panel EXCEPT !.x_gap = panel'.x_gap, !.y_gap = panel'.y_gap]
      ]_vars

\* C10 witness: set_gap ran on a record whose other fields had all been set.
C10_Witness ==
    /\ op.name = "set_gap"
    /\ panel.x_gap = 2
    /\ panel.y_gap = 3
    /\ panel.brightness = 200
    /\ panel.swap_xy
    /\ panel.mirror_x
    /\ panel.rgb_ele_order = LCD_RGB_ELEMENT_ORDER_BGR
    /\ panel.en_gpio_num = 5

\* The set-addressing-mode parameter of the orientation table for record p.
OrientationByte(p) ==
    BitOr(RotationTable(p.swap_xy, p.mirror_x, p.mirror_y),
          IF p.rgb_ele_order = LCD_RGB_ELEMENT_ORDER_BGR THEN 8 ELSE 0)

\* C11: orientation mutators send immediately and return the send result.
\* swap_xy(b) and mirror(mx, my) store their flags and nothing else, then
\* issue exactly one set-addressing-mode command whose parameter is computed
\* from the updated flags, and return what the transport answered to it.
C11_MutatorSendsAndReturns ==
    [][ /\ (pc = "idle" /\ op'.name = "swap_xy") =>
              /\ panel' = [panel EXCEPT !.swap_xy = op'.args[1]]
              /\ tx' = <<>>
              /\ pc' # "idle"
        /\ (pc = "idle" /\ op'.name = "mirror") =>
              /\ panel' = [panel EXCEPT !.mirror_x = op'.args[1],
                                        !.mirror_y = op'.args[2]]
              /\ tx' = <<>>
              /\ pc' # "idle"
        /\ (op.name \in {"swap_xy", "mirror"} /\ pc # "idle") =>
              /\ pc' = "idle"
              /\ panel' = panel
              /\ Len(tx') = 1
              /\ IsCommand(tx'[1], LCD_CMD_MADCTL)
              /\ tx'[1].param = <<OrientationByte(panel')>>
              /\ ret' = tx'[1].ret
      ]_vars

\* C11 witness: swap_xy(TRUE) on a mirrored-x BGR record sent 0x38, the
\* transport timed out and swap_xy returned the timeout.
C11_Witness ==
    /\ op.name = "swap_xy"
    /\ op.args = <<TRUE>>
    /\ pc = "idle"
    /\ panel.swap_xy
    /\ panel.mirror_x
    /\ panel.rgb_ele_order = LCD_RGB_ELEMENT_ORDER_BGR
    /\ Len(tx) = 1
    /\ tx[1].param = <<56>>
    /\ tx[1].ret = ESP_ERR_TIMEOUT
    /\ ret = ESP_ERR_TIMEOUT

\* C12: orientation re-application after a flag mutator is best-effort.  When
\* the transport fails the set-addressing-mode command sent by swap_xy or
\* mirror, the mutator's return value does not show the failure.
C12_MutatorFailureHidden ==
    (op.name \in {"swap_xy", "mirror"} /\ pc = "idle"
         /\ Len(tx) = 1 /\ tx[1].ret # ESP_OK) =>
        ret = ESP_OK

\* What the code does when the orientation command of a mutator fails: the
\* mutator returns the transport's failure.
C12_MutatorFailureReturned ==
    (op.name \in {"swap_xy", "mirror"} /\ pc = "idle"
         /\ Len(tx) = 1 /\ tx[1].ret # ESP_OK) =>
        ret = tx[1].ret

\* C12 example: mirror(TRUE, FALSE) whose orientation command failed.
C12_Example ==
    /\ op.name = "mirror"
    /\ op.args = <<TRUE, FALSE>>
    /\ pc = "idle"
    /\ Len(tx) = 1
    /\ tx[1].ret = ESP_FAIL
    /\ ret = ESP_FAIL

\* The record's pixel configuration is one the specification allows.
ValidPixelConfig ==
    /\ panel.bits_per_pixel \in {3, 8, 16, 18, 24}
    /\ panel.grayscale => panel.bits_per_pixel = 8

\* C13: device-record invariant.  In every reachable state of a registered
\* record, bits-per-pixel is one of {3, 8, 16, 18, 24} and grayscale implies
\* bits-per-pixel = 8.
C13_DeviceRecordInvariant == ValidPixelConfig

\* What the code guarantees instead: only an init that got as far as the
\* pixel-format command has checked the pixel configuration.
C13_ValidatedByInit ==
    \A k \in 1..Len(tx) : IsCommand(tx[k], LCD_CMD_COLMOD) => ValidPixelConfig

\* C13 example: a record registered with 12 bits per pixel has been drawn to
\* and is still in use.
C13_Example ==
    /\ panel.bits_per_pixel = 12
    /\ op.name = "draw_bitmap"
    /\ pc = "idle"
    /\ ret = ESP_OK
    /\ Len(tx) = 4

\* The pins of the record that are configured, reset pin first.
ConfiguredPins ==
    (IF panel.reset_gpio_num # GPIO_NUM_NC THEN <<panel.reset_gpio_num>> ELSE <<>>)
        \o (IF panel.en_gpio_num # GPIO_NUM_NC THEN <<panel.en_gpio_num>> ELSE <<>>)

\* C14: teardown never fails partway.  del releases the reset pin and then
\* the enable pin, each exactly once if it is configured and not at all if it
\* is not connected, whatever the release of the reset pin answered; it
\* returns success, and the record is gone only with both attempts made.
C14_TeardownCompletes ==
    /\ op.name = "del" =>
          /\ pc = "deleted"
          /\ ret = ESP_OK
          /\ Len(gpio) = Len(ConfiguredPins)
          /\ \A k \in 1..Len(gpio) :
                /\ gpio[k].fn = "gpio_reset_pin"
                /\ gpio[k].pin = ConfiguredPins[k]
    /\ pc = "deleted" => op.name = "del"

\* C14 witness: the release of the reset pin failed, the enable pin was
\* released after it and del returned success.
C14_Witness ==
    /\ op.name = "del"
    /\ pc = "deleted"
    /\ ret = ESP_OK
    /\ gpio = <<GpioResetPin(4, ESP_FAIL), GpioResetPin(5, ESP_OK)>>

\* The command addresses the operation in op sends when nothing stops it, in
\* order; the last entry of a draw is its bulk pixel transfer.
PlannedAddresses ==
    CASE op.name = "init" ->
             <<254, 36, 91, 254, 194, 53, 17, 41, 54, 58>>
                 \o (IF panel.bits_per_pixel = 16 THEN <<128>> ELSE <<>>)
                 \o <<81>>
      [] op.name = "draw_bitmap" -> <<42, 43, 44, 44>>
      [] op.name = "set_brightness" -> <<81>>
      [] op.name \in {"swap_xy", "mirror"} -> <<54>>
      [] op.name = "invert_color" -> <<IF op.args[1] THEN 33 ELSE 32>>
      [] op.name = "disp_on_off" -> <<IF op.args[1] THEN 41 ELSE 40>>
      [] op.name = "sleep" -> <<IF op.args[1] THEN 16 ELSE 17>>
      [] OTHER -> <<>>

\* C15: no retries.  Under every pattern of transport failures the transport
\* calls of an operation are the first of the commands it sends when nothing
\* stops it, each handed over once: no call repeats the one before it, and a
\* failed transaction is never followed by the same transaction.
C15_NoRetries ==
    /\ Len(tx) <= Len(PlannedAddresses)
    /\ \A k \in 1..Len(tx) :
          IF op.name = "draw_bitmap" /\ k = 4
          THEN tx[k].fn = "tx_color" /\ tx[k].lcd_cmd = pixel_prefix + 44 * 256
          ELSE IsCommand(tx[k], PlannedAddresses[k])
    /\ \A k \in 1..(Len(tx) - 1) :
          tx[k].ret # ESP_OK =>
              ~ /\ tx[k + 1].fn = tx[k].fn
                /\ tx[k + 1].lcd_cmd = tx[k].lcd_cmd
                /\ tx[k + 1].param = tx[k].param

\* C15 witness: an init at 16 bpp whose orientation, byte-swap and brightness
\* commands all failed made twelve transport calls and returned.
C15_Witness ==
    /\ op.name = "init"
    /\ pc = "idle"
    /\ Len(tx) = 12
    /\ tx[9].ret = ESP_FAIL
    /\ tx[11].ret = ESP_ERR_TIMEOUT
    /\ tx[12].ret = ESP_FAIL
    /\ ret = ESP_FAIL

\* The commands the specification places after the init sequence, by address
\* and parameters, for a record with a valid pixel format.
InitTail ==
    << <<54, <<OrientationByte(panel)>> >>,
       <<58, <<FormatTable(panel.bits_per_pixel, panel.grayscale)>> >> >>
        \o (IF panel.bits_per_pixel = 16 THEN << <<128, <<16>> >> >> ELSE <<>>)
        \o << <<81, <<255>> >> >>

\* C16: init tail ordering and result.  With a valid pixel format, when the
\* transport fails no command of init other than (possibly) the final
\* brightness command, init has issued after the eight init-sequence
\* commands, in order: set-addressing-mode, the pixel-format command with the
\* selected byte, the byte-swap option 0x80 {0x10} if and only if
\* bits-per-pixel is 16, and the brightness command with 0xFF; it returns the
\* brightness command's result (success when nothing failed), and brightness
\* reads back as 255.
C16_InitTail ==
    ( /\ op.name = "init"
      /\ pc = "idle"
      /\ FormatTable(panel.bits_per_pixel, panel.grayscale) # 0
      /\ \A k \in 1..Len(tx) : tx[k].ret # ESP_OK => IsCommand(tx[k], 81) ) =>
        /\ Len(tx) = 8 + Len(InitTail)
        /\ \A j \in 1..Len(InitTail) :
              /\ IsCommand(tx[8 + j], InitTail[j][1])
              /\ tx[8 + j].param = InitTail[j][2]
        /\ ret = Last(tx).ret
        /\ NoFailure => ret = ESP_OK
        /\ esp_lcd_panel_rm690b0_get_brightness(panel) = 255

\* C16 witness: init at 16 bpp ran through the byte-swap option and returned
\* success.
C16_Witness ==
    /\ op.name = "init"
    /\ pc = "idle"
    /\ ret = ESP_OK
    /\ NoFailure
    /\ panel.bits_per_pixel = 16
    /\ Len(tx) = 12
    /\ IsCommand(tx[10], 58)
    /\ tx[10].param = <<85>>
    /\ IsCommand(tx[11], 128)
    /\ tx[11].param = <<16>>
    /\ tx[12].param = <<255>>
    /\ panel.brightness = 255

\* C17: init tolerates an orientation failure.  If the eight init-sequence
\* commands succeeded and the transport failed init's set-addressing-mode
\* command, init does not return on it: a valid pixel format makes it go on
\* to the pixel-format command, and its result is that of the later steps
\* (the invalid-format abort, a failed pixel-format command, or the
\* brightness command).
C17_InitToleratesOrientationFailure ==
    ( /\ op.name = "init"
      /\ Len(tx) >= 9
      /\ \A k \in 1..8 : tx[k].ret = ESP_OK
      /\ IsCommand(tx[9], 54)
      /\ tx[9].ret # ESP_OK ) =>
        /\ (pc = "idle" /\ Len(tx) = 9) =>
              /\ FormatTable(panel.bits_per_pixel, panel.grayscale) = 0
              /\ ret = ESP_ERR_INVALID_ARG
        /\ Len(tx) >= 10 => IsCommand(tx[10], 58)
        /\ (pc = "idle" /\ Len(tx) >= 10) =>
              /\ ret = Last(tx).ret
              /\ IsCommand(Last(tx), 81) \/ (Len(tx) = 10 /\ tx[10].ret # ESP_OK)

\* C17 witness: the orientation command timed out and init went on to
\* return success.
C17_Witness ==
    /\ op.name = "init"
    /\ pc = "idle"
    /\ ret = ESP_OK
    /\ Len(tx) = 11
    /\ tx[9].ret = ESP_ERR_TIMEOUT
    /\ IsCommand(tx[10], 58)
    /\ IsCommand(tx[11], 81)

\* C18: an invalid pixel format aborts init.  On a record whose
\* (bits-per-pixel, grayscale) has no format byte, init never issues the
\* pixel-format, byte-swap option or brightness command and never changes
\* the cached brightness; once the eight init-sequence commands have
\* succeeded it issues the orientation command and returns InvalidArgument
\* whatever the transport answered to it.
C18_InvalidFormatAbortsInit ==
    [][ (op'.name = "init"
            /\ FormatTable(panel.bits_per_pixel, panel.grayscale) = 0) =>
            /\ panel'.brightness = panel.brightness
            /\ \A k \in 1..Len(tx') :
                  /\ ~IsCommand(tx'[k], 58)
                  /\ ~IsCommand(tx'[k], 128)
                  /\ ~IsCommand(tx'[k], 81)
            /\ pc = "init.update_screen_orientation" =>
                  /\ pc' = "idle"
                  /\ ret' = ESP_ERR_INVALID_ARG
                  /\ Len(tx') = 9
                  /\ \A k \in 1..8 :
                        /\ IsCommand(tx'[k], InitSequence[k][1])
                        /\ tx'[k].param = InitSequence[k][2]
                        /\ tx'[k].ret = ESP_OK
                  /\ IsCommand(tx'[9], 54)
            /\ (pc' = "idle" /\ Len(tx') > 8) => ret' = ESP_ERR_INVALID_ARG
      ]_vars

\* C18 witness: init on a 12 bpp record returned InvalidArgument after nine
\* commands, with the brightness of an earlier set_brightness(200) cached.
C18_Witness ==
    /\ op.name = "init"
    /\ pc = "idle"
    /\ ret = ESP_ERR_INVALID_ARG
    /\ panel.bits_per_pixel = 12
    /\ panel.brightness = 200
    /\ Len(tx) = 9
    /\ IsCommand(tx[9], 54)

\* C19: the 16-bpp byte-swap is best-effort.  Only init on a 16 bpp record
\* issues the byte-swap option command 0x80 {0x10}; whatever the transport
\* answers to it, init issues the brightness command next and returns the
\* brightness command's result.
C19_ByteSwapBestEffort ==
    \A k \in 1..Len(tx) :
        IsCommand(tx[k], 128) =>
            /\ op.name = "init"
            /\ panel.bits_per_pixel = 16
            /\ tx[k].param = <<16>>
            /\ pc = "idle" =>
                  /\ Len(tx) = k + 1
                  /\ IsCommand(tx[k + 1], 81)
                  /\ ret = tx[k + 1].ret

\* C19 witness: the byte-swap option command failed, the brightness command
\* followed and init returned success.
C19_Witness ==
    /\ op.name = "init"
    /\ pc = "idle"
    /\ panel.bits_per_pixel = 16
    /\ Len(tx) = 12
    /\ IsCommand(tx[11], 128)
    /\ tx[11].ret = ESP_FAIL
    /\ IsCommand(tx[12], 81)
    /\ tx[12].ret = ESP_OK
    /\ ret = ESP_OK

\* C20: enable-pin bring-up ordering.  In every state of init, from the one
\* in which no command has been handed to the transport yet, the GPIO calls
\* of init are one write of high to the enable pin when it is configured and
\* none at all when it is not connected.
C20_EnablePinFirst ==
    op.name = "init" =>
        gpio = IF panel.en_gpio_num # -1
               THEN <<[fn |-> "gpio_set_level", pin |-> panel.en_gpio_num,
                       level |-> 1]>>
               ELSE <<>>

\* C20 witness: the enable pin 5 is high and init has sent nothing yet.
C20_Witness ==
    /\ op.name = "init"
    /\ pc = "init.send_commands"
    /\ tx = <<>>
    /\ panel.en_gpio_num = 5
    /\ gpio = <<GpioSetLevel(5, HIGH)>>

\* C21: reset pulse.  reset writes the reset pin high, then low, then high,
\* also when the reset pin is not connected, and does nothing else: no
\* transport call, no change to the record; it returns success.
C21_ResetPulse ==
    [][ (pc = "idle" /\ op'.name = "reset") =>
            /\ gpio' = << [fn |-> "gpio_set_level", pin |-> panel.reset_gpio_num,
                           level |-> 1],
                          [fn |-> "gpio_set_level", pin |-> panel.reset_gpio_num,
                           level |-> 0],
                          [fn |-> "gpio_set_level", pin |-> panel.reset_gpio_num,
                           level |-> 1] >>
            /\ tx' = <<>>
            /\ panel' = panel
            /\ pc' = "idle"
            /\ ret' = ESP_OK
      ]_vars

\* C21 witness: reset ran on a record without a reset pin, after init and
\* the setters had changed the record, and wrote to pin -1 three times.
C21_Witness ==
    /\ op.name = "reset"
    /\ pc = "idle"
    /\ ret = ESP_OK
    /\ panel.reset_gpio_num = -1
    /\ panel.brightness = 255
    /\ panel.mirror_y
    /\ tx = <<>>
    /\ Len(gpio) = 3
    /\ gpio[1] = GpioSetLevel(-1, HIGH)
    /\ gpio[2] = GpioSetLevel(-1, LOW)
    /\ gpio[3] = GpioSetLevel(-1, HIGH)

\* C22: orientation flags are not rolled back on a failed send.  When the
\* transport fails the set-addressing-mode command of swap_xy or mirror, the
\* flags the call stored stay in the record, no step other than the entry of
\* a mutator changes the flags, and the next set-addressing-mode command the
\* transport accepts carries the rotation code of the flags accumulated in
\* the record.
C22_FlagsNotRolledBack ==
    [][ /\ (op.name \in {"swap_xy", "mirror"} /\ pc # "idle"
               /\ pc' = "idle" /\ ret' # ESP_OK) =>
              /\ madctl' = "failed"
              /\ panel' = panel
              /\ op.name = "swap_xy" => panel'.swap_xy = op.args[1]
              /\ op.name = "mirror" =>
                    /\ panel'.mirror_x = op.args[1]
                    /\ panel'.mirror_y = op.args[2]
        /\ (madctl = "failed" /\ ~(pc = "idle" /\ op'.name \in {"swap_xy", "mirror"})) =>
              /\ panel'.swap_xy = panel.swap_xy
              /\ panel'.mirror_x = panel.mirror_x
              /\ panel'.mirror_y = panel.mirror_y
        /\ (madctl = "failed" /\ madctl' = "recovered") =>
              /\ IsCommand(Last(tx'), 54)
              /\ Last(tx').ret = ESP_OK
              /\ Last(tx').param = <<OrientationByte(panel')>>
      ]_vars

\* C22 witness: the command of a mutator failed, and the command of the
\* mirror(TRUE, FALSE) after it was the first one accepted since: it carries
\* 0x30, the code of swapped axes with mirror-x.
C22_Witness ==
    /\ madctl = "recovered"
    /\ op.name = "mirror"
    /\ op.args = <<TRUE, FALSE>>
    /\ pc = "idle"
    /\ ret = ESP_OK
    /\ panel.swap_xy
    /\ panel.rgb_ele_order = LCD_RGB_ELEMENT_ORDER_RGB
    /\ tx[1].param = <<48>>

====
